---- MODULE Spec2Model ----
(***************************************************************************)
(* tiny-excel: the Workbook (class TinyExcel, src/lib/tiny-excel.ts) and   *)
(* the Sheet (class Sheet, listed in src/README.md from line 125 on) as a  *)
(* state machine.                                                          *)
(*                                                                         *)
(* JavaScript values are tagged tuples: <<"undefined">>, <<"null">>,       *)
(* <<"string", s>>, <<"number", n>>.  A cell address is the sequence of    *)
(* its characters, so that the address grammar and parseInt are computed.  *)
(* Objects that the code shares by reference (parsed worksheet trees and   *)
(* the parsed shared-string table) live in two heaps, trees and tables,    *)
(* and are named by their position in the heap; reference 0 is undefined.  *)
(***************************************************************************)
EXTENDS Integers, Sequences, FiniteSets, TLC

VARIABLES
  pathXlsx,       \* _path ends with ".xlsx"
  disk,           \* what Bun.file(_path) holds: the archive's entries, or Missing
  file,           \* _file: the unzipped entries, in key order (<<>> before load)
  fileSet,        \* whether _file has been assigned
  sheets,         \* _sheets: Map index -> tree reference, in insertion order
  sharedStrings,  \* _sharedStrings: table reference, 0 when undefined
  trees,          \* heap of parsed worksheet trees
  tables,         \* heap of parsed shared-string tables
  wrappers,       \* the Sheet objects getSheet has handed out, in order
  loads,          \* number of load calls made on this Workbook
  excluded,       \* options.excludeSheetIndexes of the latest load call
  loadResult,     \* how the latest load call ended: "none", "resolved", "rejected"
  last,           \* the latest call and its outcome
  pc              \* position of the scripted caller (AliasSpec), "free" otherwise

vars == <<pathXlsx, disk, file, fileSet, sheets, sharedStrings, trees, tables,
          wrappers, loads, excluded, loadResult, last, pc>>

---------------------------------------------------------------------------
(* JavaScript values *)

Undefined == <<"undefined">>
Null == <<"null">>
Str(s) == <<"string", s>>
Num(n) == <<"number", n>>
IsNum(x) == x[1] = "number"
IsStr(x) == x[1] = "string"

\* Number.prototype.toString / String(n) for the integers of the model.
NumberToString(n) == ToString(n)

\* ToPropertyKey: the key under which stringTable[x] is looked up.
PropertyKey(x) ==
  IF IsNum(x) THEN NumberToString(x[2])
  ELSE IF IsStr(x) THEN x[2]
  ELSE x[1]

\* Falsy values among those a table entry or a lookup can produce: x || y.
Falsy(x) == x = Undefined \/ x = Null \/ x = Str("") \/ x = Num(0)
OrElse(x, y) == IF Falsy(x) THEN y ELSE x

---------------------------------------------------------------------------
(* Cell names: /^[A-Z]+\d+$/ and parseInt(cell_name.match(/\d+/g)[0]) *)

UpperLetters == {"A", "B", "C", "D", "E", "F", "G", "H", "I", "J", "K", "L", "M",
                 "N", "O", "P", "Q", "R", "S", "T", "U", "V", "W", "X", "Y", "Z"}
DigitValue == [d \in {"0", "1", "2", "3", "4", "5", "6", "7", "8", "9"} |->
                 CASE d = "0" -> 0 [] d = "1" -> 1 [] d = "2" -> 2 [] d = "3" -> 3
                   [] d = "4" -> 4 [] d = "5" -> 5 [] d = "6" -> 6 [] d = "7" -> 7
                   [] d = "8" -> 8 [] d = "9" -> 9]
Digits == DOMAIN DigitValue

\* The same pattern without its anchors, /[A-Z]+\d+/: a match anywhere in name.
ValidNameLoose(name) ==
  \E i \in 1..Len(name), k \in 1..Len(name), j \in 1..Len(name) :
    /\ i <= k /\ k < j
    /\ \A x \in i..k : name[x] \in UpperLetters
    /\ \A x \in (k + 1)..j : name[x] \in Digits

\* cell_name.match(/^[A-Z]+\d+$/)
ValidName(name) ==
  \E k \in 1..(Len(name) - 1) :
    /\ \A x \in 1..k : name[x] \in UpperLetters
    /\ \A x \in (k + 1)..Len(name) : name[x] \in Digits

\* The first maximal run of digits of name: name.match(/\d+/g)[0].
FirstDigitRun(name) ==
  LET starts == {i \in 1..Len(name) : name[i] \in Digits}
      s == CHOOSE i \in starts : \A j \in starts : i <= j
      ends == {e \in s..Len(name) :
                 /\ \A x \in s..e : name[x] \in Digits
                 /\ (e = Len(name) \/ name[e + 1] \notin Digits)}
      e == CHOOSE x \in ends : TRUE
  IN SubSeq(name, s, e)

RECURSIVE ParseInt(_)
ParseInt(ds) ==
  IF Len(ds) = 0 THEN 0
  ELSE 10 * ParseInt(SubSeq(ds, 1, Len(ds) - 1)) + DigitValue[ds[Len(ds)]]

---------------------------------------------------------------------------
(* The Tree Codec (fast-xml-parser) as the code uses it.                   *)
(* An XML document is written as its element structure: a worksheet is the *)
(* sequence of its <row> elements, [r, c], c the sequence of <c> elements  *)
(* [r, t, v, f]; the shared strings are the sequence of the <t> texts.     *)
(* The parser collapses children of one tag: none -> undefined, one -> the *)
(* bare child, two or more -> an array.  A collection is [isArray, items]: *)
(* isArray FALSE with no item is undefined, with one item the bare child.  *)

Coll(isArray, items) == [isArray |-> isArray, items |-> items]
Collapse(items) == Coll(Len(items) >= 2, items)

\* Texts that the parser's parseTagValue turns into numbers.
NumericTexts == {NumberToString(n) : n \in 0..9}
TextToNumber(s) == CHOOSE n \in 0..9 : NumberToString(n) = s

\* parseTagValue (on by default): the text of <v> or <f>.
ParseTagValue(x) ==
  IF IsStr(x) /\ x[2] \in NumericTexts THEN Num(TextToNumber(x[2])) ELSE x

\* The builder writes every value as text.
BuildValue(x) == IF IsNum(x) THEN Str(NumberToString(x[2])) ELSE x

ParseCell(c) == [r |-> c.r, t |-> c.t, v |-> ParseTagValue(c.v), f |-> ParseTagValue(c.f)]
ParseRow(row) ==
  [r |-> row.r, c |-> Collapse([j \in 1..Len(row.c) |-> ParseCell(row.c[j])])]
ParseSheet(doc) == [row |-> Collapse([i \in 1..Len(doc) |-> ParseRow(doc[i])])]
ParseStrings(doc) == [si |-> Collapse(doc)]

BuildCell(c) == [r |-> c.r, t |-> c.t, v |-> BuildValue(c.v), f |-> BuildValue(c.f)]
BuildRow(row) ==
  [r |-> BuildValue(row.r), c |-> [j \in 1..Len(row.c.items) |-> BuildCell(row.c.items[j])]]
BuildSheet(tree) == [i \in 1..Len(tree.row.items) |-> BuildRow(tree.row.items[i])]
BuildStrings(table) == table.si.items

---------------------------------------------------------------------------
(* class Sheet.  The operators take the objects the Sheet refers to, data  *)
(* (this._data) and st (this._stringTable), and give back the outcome:     *)
(* thrown is "none", "Error" (invalid cell name) or "TypeError".           *)
(* An undefined _stringTable is passed as NoTable: the only place that     *)
(* reads it, this._stringTable.sst.si.map, throws a TypeError for both.    *)

NoTable == [si |-> Coll(FALSE, <<>>)]

\* A row without <c> children: row.c is undefined, [row.c] is [undefined].
EmptyRow(row) == ~row.c.isArray /\ Len(row.c.items) = 0

\* Both loops over the rows (getCell's for..of, setCell's find/some) visit the
\* rows in order and each row's cells in order until a cell's '@_r' equals
\* cell_name; reading '@_r' of the undefined cell of an empty row throws.
RECURSIVE Scan(_, _, _)
Scan(rows, cell_name, i) ==
  IF i > Len(rows) THEN [kind |-> "none", row |-> 0, cell |-> 0]
  ELSE IF EmptyRow(rows[i]) THEN [kind |-> "throw", row |-> i, cell |-> 0]
  ELSE LET cs == rows[i].c.items
           hits == {j \in 1..Len(cs) : cs[j].r = cell_name}
       IN IF hits # {}
          THEN [kind |-> "hit", row |-> i, cell |-> CHOOSE j \in hits : \A k \in hits : j <= k]
          ELSE Scan(rows, cell_name, i + 1)

\* stringTable[x] on the array of texts: an element when x's property key is
\* the decimal text of an index in range, undefined otherwise.
Lookup(texts, x) ==
  LET hit == {i \in 0..(Len(texts) - 1) : NumberToString(i) = PropertyKey(x)}
  IN IF hit = {} THEN Undefined ELSE Str(texts[(CHOOSE i \in hit : TRUE) + 1])

\* return stringTable[_cell.v] || null
Resolve(texts, cell) == OrElse(Lookup(texts, cell.v), Null)

GetCell(data, st, cell_name) ==
  IF ~ValidName(cell_name) THEN [thrown |-> "Error", ret |-> Undefined]
  ELSE IF ~st.si.isArray \/ ~data.row.isArray
    THEN [thrown |-> "TypeError", ret |-> Undefined]
  ELSE LET s == Scan(data.row.items, cell_name, 1)
       IN IF s.kind = "throw" THEN [thrown |-> "TypeError", ret |-> Undefined]
          ELSE IF s.kind = "hit"
            THEN [thrown |-> "none",
                  ret |-> Resolve(st.si.items, data.row.items[s.row].c.items[s.cell])]
          ELSE [thrown |-> "none", ret |-> Null]

\* stringTable.indexOf(x): the first offset whose text is x, -1 when none.
IndexOf(texts, x) ==
  LET hit == {i \in 1..Len(texts) : Str(texts[i]) = x}
  IN IF hit = {} THEN -1 ELSE (CHOOSE i \in hit : \A k \in hit : i <= k) - 1

\* A _getSharedString that looks the new value up instead of the old one and
\* shares the entry it finds.
GetSharedStringByValue(st, old_value, value) ==
  LET index == IndexOf(st.si.items, value)
  IN IF index # -1
     THEN [index |-> index, st |-> st]
     ELSE [index |-> Len(st.si.items),
           st |-> [st EXCEPT !.si.items = Append(@, value[2])]]

\* A _getSharedString that appends whatever the table holds.
GetSharedStringAppend(st, old_value, value) ==
  [index |-> Len(st.si.items), st |-> [st EXCEPT !.si.items = Append(@, value[2])]]

\* A _getSharedString that overwrites the first entry of the table whatever the
\* old value is.
GetSharedStringAtZero(st, old_value, value) ==
  IF Len(st.si.items) > 0
  THEN [index |-> 0, st |-> [st EXCEPT !.si.items[1] = value[2]]]
  ELSE [index |-> 0, st |-> [st EXCEPT !.si.items = Append(@, value[2])]]

\* _getSharedString(old_value, value): the offset and the table afterwards.
GetSharedString(st, old_value, value) ==
  LET index == IndexOf(st.si.items, old_value)
  IN IF index # -1
     THEN [index |-> index,
           st |-> [st EXCEPT !.si.items[index + 1] = value[2]]]
     ELSE [index |-> Len(st.si.items),
           st |-> [st EXCEPT !.si.items = Append(@, value[2])]]

\* A number branch that leaves the type marker on the cell.
WriteNumberKeepMarker(cell, value) == [cell EXCEPT !.v = Str(NumberToString(value[2]))]

\* The three branches of setCell on the target cell.
WriteFormula(cell, value) == [cell EXCEPT !.f = value, !.v = Undefined, !.t = Undefined]
WriteNumber(cell, value) == [cell EXCEPT !.v = Str(NumberToString(value[2])), !.t = Undefined]
WriteString(cell, stringIndex) == [cell EXCEPT !.v = Num(stringIndex), !.t = Str("s")]

\* Two notifications for one write.
EmitTwice(index, data, st) ==
  << [index |-> index, data |-> data, stringTable |-> st],
     [index |-> index, data |-> data, stringTable |-> st] >>

\* this.emit("change", { data, stringTable, index }): the notification refers to
\* the tree and the table, which it shows as they are when it is emitted.
Emit(index, data, st) == << [index |-> index, data |-> data, stringTable |-> st] >>

\* setCell.  data1 is the tree once the target row and cell exist, written is
\* the tree after the branch on the kind of value; the notification is emitted
\* last, on the written tree and table.
SetCell(data, st, index, cell_name, value, type) ==
  IF ~ValidName(cell_name)
    THEN [thrown |-> "Error", data |-> data, st |-> st, emitted |-> <<>>]
  ELSE IF ~data.row.isArray
    THEN [thrown |-> "TypeError", data |-> data, st |-> st, emitted |-> <<>>]
  ELSE LET s == Scan(data.row.items, cell_name, 1) IN
    IF s.kind = "throw"
      THEN [thrown |-> "TypeError", data |-> data, st |-> st, emitted |-> <<>>]
    ELSE IF s.kind = "hit" /\ ~data.row.items[s.row].c.isArray
      THEN [thrown |-> "TypeError", data |-> data, st |-> st, emitted |-> <<>>]
    ELSE
      LET newRow == [r |-> Num(ParseInt(FirstDigitRun(cell_name))), c |-> Coll(TRUE, <<>>)]
          newCell == [r |-> cell_name, t |-> Undefined, v |-> Undefined, f |-> Undefined]
          ri == IF s.kind = "hit" THEN s.row ELSE Len(data.row.items) + 1
          ci == IF s.kind = "hit" THEN s.cell ELSE 1
          data1 == IF s.kind = "hit" THEN data
                   ELSE [data EXCEPT !.row.items =
                           Append(@, [newRow EXCEPT !.c.items = <<newCell>>])]
          got == GetCell(data1, st, cell_name)
          currentValue == OrElse(got.ret, Str(""))
          targetCell == data1.row.items[ri].c.items[ci]
          shared == GetSharedString(st, currentValue, value)
      IN IF got.thrown # "none"
           THEN [thrown |-> got.thrown, data |-> data1, st |-> st, emitted |-> <<>>]
         ELSE IF type = "formula"
           THEN LET written == [data1 EXCEPT !.row.items[ri].c.items[ci] =
                                  WriteFormula(targetCell, value)]
                IN [thrown |-> "none", data |-> written, st |-> st,
                    emitted |-> Emit(index, written, st)]
         ELSE IF IsNum(value)
           THEN LET written == [data1 EXCEPT !.row.items[ri].c.items[ci] =
                                  WriteNumber(targetCell, value)]
                IN [thrown |-> "none", data |-> written, st |-> st,
                    emitted |-> Emit(index, written, st)]
         ELSE LET written == [data1 EXCEPT !.row.items[ri].c.items[ci] =
                                WriteString(targetCell, shared.index)]
              IN [thrown |-> "none", data |-> written, st |-> shared.st,
                  emitted |-> Emit(index, written, shared.st)]

---------------------------------------------------------------------------
(* The archive.  An entry is [key, data].  A key is <<prefix, n>>: the     *)
(* worksheet entry "xl/worksheets/sheet<n>.xml" is <<SheetPrefix, n>>, so  *)
(* that startsWith and the template literal of saveBuffer are computed;    *)
(* every other key is <<name, 0>>.  Data is [form, rows, texts, blob]: the  *)
(* bytes are the "original" ones of the package, those "built" by          *)
(* XMLBuilder, "malformed" XML that XMLParser.parse throws on, or "opaque" *)
(* (not XML: styles, ...); rows is the document of a worksheet, texts that *)
(* of the shared strings, blob the content of an opaque entry.             *)

SheetPrefix == "xl/worksheets/sheet"
SheetEntryKey(n) == <<SheetPrefix, n>>
SharedStringsKey == <<"xl/sharedStrings.xml", 0>>
StylesKey == <<"xl/styles.xml", 0>>
RelsKey == <<"xl/_rels/workbook.xml.rels", 0>>

\* key.startsWith("xl/worksheets/sheet")
IsSheetKey(key) == key[1] = SheetPrefix

Keys(entries) == [i \in 1..Len(entries) |-> entries[i].key]
HasKey(entries, key) == \E i \in 1..Len(entries) : entries[i].key = key
\* entries[key]
EntryData(entries, key) == entries[CHOOSE i \in 1..Len(entries) : entries[i].key = key].data
\* entries[key] = data: an own property keeps its place, a new one goes last.
PutEntry(entries, key, data) ==
  IF HasKey(entries, key)
  THEN [i \in 1..Len(entries) |->
          IF entries[i].key = key THEN [key |-> key, data |-> data] ELSE entries[i]]
  ELSE Append(entries, [key |-> key, data |-> data])

\* Map.prototype.has / get / set on a Map kept as the sequence of its pairs.
MapHas(m, k) == \E i \in 1..Len(m) : m[i][1] = k
MapGet(m, k) == m[CHOOSE i \in 1..Len(m) : m[i][1] = k][2]
MapSet(m, k, v) ==
  IF MapHas(m, k)
  THEN [i \in 1..Len(m) |-> IF m[i][1] = k THEN <<k, v>> ELSE m[i]]
  ELSE Append(m, <<k, v>>)
MapKeys(m) == {m[i][1] : i \in 1..Len(m)}

BuiltSheet(rows) == [form |-> "built", rows |-> rows, texts |-> <<>>, blob |-> ""]
BuiltStrings(texts) == [form |-> "built", rows |-> <<>>, texts |-> texts, blob |-> ""]

---------------------------------------------------------------------------
(* Bounds of the model *)

\* The shared-string table is not grown beyond MaxTable entries.
MaxTable == 4
\* load is called at most MaxLoads times on a Workbook.
MaxLoads == 2
\* The caller keeps at most MaxSheets Sheet objects.
MaxSheets == 2

---------------------------------------------------------------------------
(* class TinyExcel *)

NoCall == [op |-> "new", index |-> 0, w |-> 0, cell_name |-> <<>>, value |-> Undefined,
           type |-> "string", thrown |-> "none", ret |-> Undefined, emitted |-> <<>>,
           buffer |-> <<>>]

\* Object.keys(this._file).filter(key => key.startsWith("xl/worksheets/sheet"))
SheetKeys(entries) == SelectSeq(Keys(entries), IsSheetKey)

\* A loop that registers every worksheet, excluded or not.
RECURSIVE LoadSheetsAll(_, _, _, _, _, _)
LoadSheetsAll(entries, sheet_keys, excl, i, shs, trs) ==
  IF i >= Len(sheet_keys) THEN [thrown |-> "none", sheets |-> shs, trees |-> trs]
  ELSE LET sheetFile == EntryData(entries, sheet_keys[i + 1])
       IN IF sheetFile.form = "malformed"
          THEN [thrown |-> "Error", sheets |-> shs, trees |-> trs]
          ELSE LoadSheetsAll(entries, sheet_keys, excl, i + 1,
                             MapSet(shs, i, Len(trs) + 1),
                             Append(trs, ParseSheet(sheetFile.rows)))

\* The loop of load over the worksheet keys, from index i on: an excluded index
\* is skipped, a worksheet that does not parse ends the load with the sheets
\* registered so far, every other one is parsed into a new tree and registered.
RECURSIVE LoadSheets(_, _, _, _, _, _)
LoadSheets(entries, sheet_keys, excl, i, shs, trs) ==
  IF i >= Len(sheet_keys) THEN [thrown |-> "none", sheets |-> shs, trees |-> trs]
  ELSE IF i \in excl THEN LoadSheets(entries, sheet_keys, excl, i + 1, shs, trs)
  ELSE LET sheetFile == EntryData(entries, sheet_keys[i + 1])
       IN IF sheetFile.form = "malformed"
          THEN [thrown |-> "Error", sheets |-> shs, trees |-> trs]
          ELSE LoadSheets(entries, sheet_keys, excl, i + 1,
                          MapSet(shs, i, Len(trs) + 1),
                          Append(trs, ParseSheet(sheetFile.rows)))

Load(excl) ==
  /\ loads' = loads + 1
  /\ excluded' = excl
  /\ UNCHANGED <<pathXlsx, disk, wrappers>>
  /\ IF ~disk.exists \/ ~pathXlsx
     THEN /\ last' = [NoCall EXCEPT !.op = "load", !.thrown = "Error"]
          /\ UNCHANGED <<file, fileSet, sheets, sharedStrings, trees, tables>>
     ELSE /\ file' = disk.entries
          /\ fileSet' = TRUE
          /\ IF ~HasKey(disk.entries, SharedStringsKey)
             THEN /\ last' = [NoCall EXCEPT !.op = "load", !.thrown = "Error"]
                  /\ UNCHANGED <<sheets, sharedStrings, trees, tables>>
             ELSE LET r == LoadSheets(disk.entries, SheetKeys(disk.entries), excl, 0,
                                      sheets, trees)
                      strings == EntryData(disk.entries, SharedStringsKey)
                  IN /\ sheets' = r.sheets
                     /\ trees' = r.trees
                     /\ IF r.thrown # "none" \/ strings.form = "malformed"
                        THEN /\ last' = [NoCall EXCEPT !.op = "load", !.thrown = "Error"]
                             /\ UNCHANGED <<sharedStrings, tables>>
                        ELSE /\ tables' = Append(tables, ParseStrings(strings.texts))
                             /\ sharedStrings' = Len(tables) + 1
                             /\ last' = [NoCall EXCEPT !.op = "load"]
  /\ loadResult' = IF last'.thrown = "none" THEN "resolved" ELSE "rejected"

NewSheet(index, data, stringTable) ==
  [index |-> index, data |-> data, stringTable |-> stringTable, epoch |-> loads]

\* A getSheet that hands out a copy of the tree instead of the tree itself.
GetSheetCopy(index) ==
  /\ UNCHANGED <<pathXlsx, disk, file, fileSet, sheets, sharedStrings, tables,
                 loads, excluded, loadResult>>
  /\ IF ~MapHas(sheets, index)
     THEN /\ last' = [NoCall EXCEPT !.op = "getSheet", !.index = index, !.thrown = "Error"]
          /\ UNCHANGED <<wrappers, trees>>
     ELSE /\ trees' = Append(trees, trees[MapGet(sheets, index)])
          /\ wrappers' = Append(wrappers, NewSheet(index, Len(trees) + 1, sharedStrings))
          /\ last' = [NoCall EXCEPT !.op = "getSheet", !.index = index]

GetSheet(index) ==
  /\ UNCHANGED <<pathXlsx, disk, file, fileSet, sheets, sharedStrings, trees, tables,
                 loads, excluded, loadResult>>
  /\ IF ~MapHas(sheets, index)
     THEN /\ last' = [NoCall EXCEPT !.op = "getSheet", !.index = index, !.thrown = "Error"]
          /\ UNCHANGED wrappers
     ELSE /\ wrappers' = Append(wrappers, NewSheet(index, MapGet(sheets, index), sharedStrings))
          /\ last' = [NoCall EXCEPT !.op = "getSheet", !.index = index]

\* The loop of saveBuffer over _sheets, in the Map's order, from position j on.
RECURSIVE SaveSheets(_, _)
SaveSheets(entries, j) ==
  IF j > Len(sheets) THEN entries
  ELSE SaveSheets(PutEntry(entries, SheetEntryKey(sheets[j][1] + 1),
                           BuiltSheet(BuildSheet(trees[sheets[j][2]]))),
                  j + 1)

\* builder.build(this._sharedStrings); of undefined it is the empty text.
BuildSharedStrings ==
  IF sharedStrings = 0 THEN BuiltStrings(<<>>) ELSE BuiltStrings(BuildStrings(tables[sharedStrings]))

\* A saveBuffer that empties the Map of sheets once the buffer is made.
SaveBufferAndForget ==
  /\ UNCHANGED <<pathXlsx, disk, fileSet, sharedStrings, trees, tables, wrappers,
                 loads, excluded, loadResult>>
  /\ IF ~fileSet
     THEN /\ last' = [NoCall EXCEPT !.op = "saveBuffer", !.thrown = "TypeError"]
          /\ UNCHANGED <<file, sheets>>
     ELSE /\ file' = PutEntry(SaveSheets(file, 1), SharedStringsKey, BuildSharedStrings)
          /\ sheets' = <<>>
          /\ last' = [NoCall EXCEPT !.op = "saveBuffer", !.buffer = file']

SaveBuffer ==
  /\ UNCHANGED <<pathXlsx, disk, fileSet, sheets, sharedStrings, trees, tables, wrappers,
                 loads, excluded, loadResult>>
  /\ IF ~fileSet
     THEN /\ last' = [NoCall EXCEPT !.op = "saveBuffer", !.thrown = "TypeError"]
          /\ UNCHANGED file
     ELSE /\ file' = PutEntry(SaveSheets(file, 1), SharedStringsKey, BuildSharedStrings)
          /\ last' = [NoCall EXCEPT !.op = "saveBuffer", !.buffer = file']

\* this._data and this._stringTable of the Sheet object at position w of wrappers.
DataOf(w) == trees[wrappers[w].data]
StringTableOf(w) ==
  IF wrappers[w].stringTable = 0 THEN NoTable ELSE tables[wrappers[w].stringTable]

SheetGetCell(w, cell_name) ==
  /\ LET r == GetCell(DataOf(w), StringTableOf(w), cell_name)
     IN last' = [NoCall EXCEPT !.op = "getCell", !.index = wrappers[w].index, !.w = w,
                               !.cell_name = cell_name, !.thrown = r.thrown, !.ret = r.ret]
  /\ UNCHANGED <<pathXlsx, disk, file, fileSet, sheets, sharedStrings, trees, tables,
                 wrappers, loads, excluded, loadResult>>

SheetSetCell(w, cell_name, value, type) ==
  LET r == SetCell(DataOf(w), StringTableOf(w), wrappers[w].index, cell_name, value, type)
  IN /\ Len(r.st.si.items) <= MaxTable
     /\ trees' = [trees EXCEPT ![wrappers[w].data] = r.data]
     /\ tables' = IF wrappers[w].stringTable = 0 THEN tables
                  ELSE [tables EXCEPT ![wrappers[w].stringTable] = r.st]
     /\ last' = [NoCall EXCEPT !.op = "setCell", !.index = wrappers[w].index, !.w = w,
                               !.cell_name = cell_name, !.value = value, !.type = type,
                               !.thrown = r.thrown, !.emitted = r.emitted]
     /\ UNCHANGED <<pathXlsx, disk, file, fileSet, sheets, sharedStrings, wrappers,
                    loads, excluded, loadResult>>

---------------------------------------------------------------------------
(* Packages on disk and the callers' inputs *)

Name(col, row) == <<col, row>>
A1 == Name("A", "1")
A2 == Name("A", "2")
B1 == Name("B", "1")
B2 == Name("B", "2")
C1 == Name("C", "1")
C2 == Name("C", "2")

XmlCell(r, t, v, f) == [r |-> r, t |-> t, v |-> v, f |-> f]
XmlRow(r, c) == [r |-> Str(r), c |-> c]
OriginalSheet(rows) == [form |-> "original", rows |-> rows, texts |-> <<>>, blob |-> ""]
OriginalStrings(texts) == [form |-> "original", rows |-> <<>>, texts |-> texts, blob |-> ""]
Malformed == [form |-> "malformed", rows |-> <<>>, texts |-> <<>>, blob |-> ""]
Opaque(x) == [form |-> "opaque", rows |-> <<>>, texts |-> <<>>, blob |-> x]
Entry(key, data) == [key |-> key, data |-> data]

\* A worksheet with two rows of two cells: two string cells, a number, a formula.
PlainSheet ==
  << XmlRow("1", << XmlCell(B1, Str("s"), Str("0"), Undefined),
                    XmlCell(C1, Undefined, Str("7"), Undefined) >>),
     XmlRow("2", << XmlCell(B2, Str("s"), Str("1"), Undefined),
                    XmlCell(C2, Undefined, Undefined, Str("SUM(B1:B2)")) >>) >>

\* Worksheet number n of a package of several: its number is in cell C1.
NumberedSheet(n) ==
  << XmlRow("1", << XmlCell(B1, Str("s"), Str("0"), Undefined),
                    XmlCell(C1, Undefined, Str(NumberToString(n)), Undefined) >>),
     XmlRow("2", << XmlCell(B2, Str("s"), Str("1"), Undefined),
                    XmlCell(C2, Undefined, Undefined, Str("SUM(B1:B2)")) >>) >>

StringDocs == { <<"foo", "bar">>, <<"", "foo">> }

\* Single-worksheet packages for the Sheet-level specification.
SheetPackages ==
  { [exists |-> TRUE,
     entries |-> << Entry(StylesKey, Opaque("styles")),
                    Entry(SheetEntryKey(1), OriginalSheet(PlainSheet)),
                    Entry(SharedStringsKey, OriginalStrings(strings)) >>] : strings \in StringDocs }

\* A worksheet whose cells A1 and A2 exist without a value.
BlankSheet ==
  << XmlRow("1", << XmlCell(A1, Undefined, Undefined, Undefined),
                    XmlCell(B1, Str("s"), Str("0"), Undefined) >>),
     XmlRow("2", << XmlCell(A2, Undefined, Undefined, Undefined),
                    XmlCell(B2, Str("s"), Str("1"), Undefined) >>) >>

AliasTexts == {"", "foo", "bar", "x"}
AliasPackages ==
  { [exists |-> TRUE,
     entries |-> << Entry(StylesKey, Opaque("styles")),
                    Entry(SheetEntryKey(1), OriginalSheet(rows)),
                    Entry(SharedStringsKey, OriginalStrings(<<s, t>>)) >>] :
      rows \in {PlainSheet, BlankSheet}, s \in AliasTexts, t \in AliasTexts }

\* Worksheet listings of a package: the numbers of its sheet<n>.xml entries in
\* the order of the archive's keys.
Listings == { <<1, 2, 3>>, <<1, 3>>, <<2, 1>> }

\* What is wrong with a package: nothing ("none"), no shared strings, shared
\* strings that do not parse, or a second worksheet that does not parse.
Defects == {"no strings", "bad strings", "bad sheet 2"}

SheetEntries(listing, defect) ==
  [i \in 1..Len(listing) |->
     Entry(SheetEntryKey(listing[i]),
           IF i = 2 /\ defect = "bad sheet 2" THEN Malformed ELSE OriginalSheet(NumberedSheet(listing[i])))]

Package(listing, defect) ==
  [exists |-> TRUE,
   entries |-> << Entry(StylesKey, Opaque("styles")) >>
               \o SheetEntries(listing, defect)
               \o (IF defect = "no strings" THEN << >>
                   ELSE << Entry(SharedStringsKey,
                                 IF defect = "bad strings" THEN Malformed
                                 ELSE OriginalStrings(<<"foo", "bar">>)) >>)
               \o << Entry(RelsKey, Opaque("rels")) >>]

Missing == [exists |-> FALSE, entries |-> <<>>]

BookPackages ==
  {Package(l, "none") : l \in Listings} \cup {Package(<<1, 2>>, d) : d \in Defects}
    \cup {Missing}

\* A package of two worksheets over one table: the first has no cell A1, the
\* second has cells A1 and A2 without a value.
PairPackages ==
  { [exists |-> TRUE,
     entries |-> << Entry(StylesKey, Opaque("styles")),
                    Entry(SheetEntryKey(1), OriginalSheet(PlainSheet)),
                    Entry(SheetEntryKey(2), OriginalSheet(BlankSheet)),
                    Entry(SharedStringsKey, OriginalStrings(strings)) >>] :
      strings \in { <<"foo", "bar">> } }
PairNames == {A1, B1}
PairValues == {Str("x"), Num(1)}

\* Worksheets and tables of every shape the parser produces: no row, one row,
\* rows of one cell, a row without cells, rows of two cells; no string, one
\* string, two strings.
ShapeSheets ==
  { << >>,
    << XmlRow("1", << XmlCell(B1, Str("s"), Str("0"), Undefined),
                      XmlCell(C1, Undefined, Str("7"), Undefined) >>) >>,
    << XmlRow("1", << XmlCell(B1, Str("s"), Str("0"), Undefined) >>),
       XmlRow("2", << XmlCell(B2, Str("s"), Str("1"), Undefined) >>) >>,
    << XmlRow("1", << >>),
       XmlRow("2", << XmlCell(B2, Str("s"), Str("1"), Undefined),
                      XmlCell(C2, Undefined, Undefined, Str("SUM(B1:B2)")) >>) >>,
    PlainSheet }
ShapeStrings == { << >>, <<"foo">>, <<"foo", "bar">> }
ShapePackages ==
  { [exists |-> TRUE,
     entries |-> << Entry(StylesKey, Opaque("styles")),
                    Entry(SheetEntryKey(1), OriginalSheet(rows)),
                    Entry(SharedStringsKey, OriginalStrings(strings)) >>] :
      rows \in ShapeSheets, strings \in ShapeStrings }

Indexes == 0..2
Exclusions == { {}, {1} }

SheetNames == {A1, B1}
BadNames == { <<"1", "A">>, <<"A">>, << >>, <<"a", "1">>, <<"A", "1", "x">> }
SheetValues == {Str(""), Str("foo"), Num(0)}
Formulas == {Str("SUM(A1:A2)")}

---------------------------------------------------------------------------
(* Specifications *)

\* new TinyExcel(path): nothing loaded.
InitOver(packages) ==
  /\ pathXlsx \in BOOLEAN
  /\ disk \in packages
  /\ file = <<>>
  /\ fileSet = FALSE
  /\ sheets = <<>>
  /\ sharedStrings = 0
  /\ trees = <<>>
  /\ tables = <<>>
  /\ wrappers = <<>>
  /\ loads = 0
  /\ excluded = {}
  /\ loadResult = "none"
  /\ last = NoCall

\* The Workbook: load with an exclusion list, getSheet, setCell through any
\* Sheet handed out, saveBuffer.
Init == InitOver(BookPackages) /\ pc = "free"

Sheets == 1..Len(wrappers)

LoadAny == \E excl \in Exclusions : loads < MaxLoads /\ Load(excl) /\ UNCHANGED pc
GetSheetAny ==
  \E index \in Indexes :
    /\ MapHas(sheets, index) => Len(wrappers) < MaxSheets
    /\ GetSheet(index)
    /\ UNCHANGED pc
BookSetCell == \E w \in Sheets : SheetSetCell(w, A1, Str("new"), "string") /\ UNCHANGED pc
Save == SaveBuffer /\ UNCHANGED pc

Next == LoadAny \/ GetSheetAny \/ BookSetCell \/ Save

Spec == Init /\ [][Next]_vars

\* One Sheet of a package loaded once: setCell and getCell with every kind of
\* value and with valid and invalid cell names.
SheetInit == InitOver(SheetPackages) /\ pathXlsx = TRUE /\ pc = "free"

LoadOnce == loads = 0 /\ Load({}) /\ UNCHANGED pc
GetSheetOnce == wrappers = <<>> /\ GetSheet(0) /\ UNCHANGED pc
SetCellDefault ==
  \E w \in Sheets, name \in SheetNames, value \in SheetValues :
    SheetSetCell(w, name, value, "string") /\ UNCHANGED pc
SetCellFormula ==
  \E w \in Sheets, name \in SheetNames, value \in Formulas :
    SheetSetCell(w, name, value, "formula") /\ UNCHANGED pc
SetCellBadName ==
  \E w \in Sheets, name \in BadNames :
    SheetSetCell(w, name, Str("foo"), "string") /\ UNCHANGED pc
GetCellAny ==
  \E w \in Sheets, name \in {A1} \cup BadNames : SheetGetCell(w, name) /\ UNCHANGED pc

SheetNext ==
  LoadOnce \/ GetSheetOnce \/ SetCellDefault \/ SetCellFormula \/ SetCellBadName \/ GetCellAny

SheetSpec == SheetInit /\ [][SheetNext]_vars

\* The caller of the aliasing scenario: load, getSheet(0), setCell("A1", "foo"),
\* setCell("A2", "foo"), then setCell("A1", "bar") or setCell("A2", "bar"), on
\* every package of AliasPackages (A1 and A2 have no value in any of them).
AliasInit == InitOver(AliasPackages) /\ pathXlsx = TRUE /\ pc = "load"

AliasLoad == pc = "load" /\ Load({}) /\ pc' = "getSheet"
AliasGetSheet == pc = "getSheet" /\ GetSheet(0) /\ pc' = "write A1"
AliasWriteA1 == pc = "write A1" /\ SheetSetCell(1, A1, Str("foo"), "string") /\ pc' = "write A2"
AliasWriteA2 == pc = "write A2" /\ SheetSetCell(1, A2, Str("foo"), "string") /\ pc' = "rewrite"
AliasRewriteA1 == pc = "rewrite" /\ SheetSetCell(1, A1, Str("bar"), "string") /\ pc' = "rewrote A1"
AliasRewriteA2 == pc = "rewrite" /\ SheetSetCell(1, A2, Str("bar"), "string") /\ pc' = "rewrote A2"

AliasNext ==
  AliasLoad \/ AliasGetSheet \/ AliasWriteA1 \/ AliasWriteA2 \/ AliasRewriteA1 \/ AliasRewriteA2

AliasSpec == AliasInit /\ [][AliasNext]_vars

\* Two Sheets of one Workbook, one for each worksheet of a package loaded once:
\* setCell of every kind and getCell through either of them.
PairInit == InitOver(PairPackages) /\ pathXlsx = TRUE /\ pc = "free"

PairLoad == loads = 0 /\ Load({}) /\ UNCHANGED pc
PairGetSheet ==
  \E index \in {0, 1} :
    /\ index = Len(wrappers)
    /\ GetSheet(index)
    /\ UNCHANGED pc
PairSetCell ==
  \E w \in Sheets, name \in PairNames, value \in PairValues :
    SheetSetCell(w, name, value, "string") /\ UNCHANGED pc
PairSetFormula ==
  \E w \in Sheets, value \in Formulas : SheetSetCell(w, A1, value, "formula") /\ UNCHANGED pc
PairSetBadName ==
  \E w \in Sheets : SheetSetCell(w, <<"1", "A">>, Str("foo"), "string") /\ UNCHANGED pc
PairGetCell == \E w \in Sheets : SheetGetCell(w, B1) /\ UNCHANGED pc

PairNext ==
  PairLoad \/ PairGetSheet \/ PairSetCell \/ PairSetFormula \/ PairSetBadName \/ PairGetCell

PairSpec == PairInit /\ [][PairNext]_vars

\* One Sheet of a package of any shape, loaded once: setCell and getCell under
\* valid cell names.
ShapeInit == InitOver(ShapePackages) /\ pathXlsx = TRUE /\ pc = "free"

ShapeLoad == loads = 0 /\ Load({}) /\ UNCHANGED pc
ShapeGetSheet == wrappers = <<>> /\ GetSheet(0) /\ UNCHANGED pc
ShapeSetCell ==
  \E w \in Sheets, name \in SheetNames : SheetSetCell(w, name, Str("x"), "string") /\ UNCHANGED pc
ShapeGetCell == \E w \in Sheets, name \in SheetNames : SheetGetCell(w, name) /\ UNCHANGED pc

ShapeNext == ShapeLoad \/ ShapeGetSheet \/ ShapeSetCell \/ ShapeGetCell

ShapeSpec == ShapeInit /\ [][ShapeNext]_vars

---------------------------------------------------------------------------
(* Properties *)

\* The cell of the tree that both getCell and setCell find for cell_name.
HasCell(data, cell_name) == Scan(data.row.items, cell_name, 1).kind = "hit"
CellAt(data, cell_name) ==
  LET s == Scan(data.row.items, cell_name, 1) IN data.row.items[s.row].c.items[s.cell]

\* The latest call was a setCell that returned, and what a getCell through the
\* same Sheet object gives right after it.
WroteCell == last.op = "setCell" /\ last.thrown = "none"
WroteString == WroteCell /\ last.type = "string" /\ IsStr(last.value)
WroteNumber == WroteCell /\ last.type = "string" /\ IsNum(last.value)
WroteFormula == WroteCell /\ last.type = "formula"
ReadBack == GetCell(DataOf(last.w), StringTableOf(last.w), last.cell_name)
WrittenCell == CellAt(DataOf(last.w), last.cell_name)

\* C1: a setCell of a string V (the empty string included) under a valid cell
\* name returns, and the getCell of the same name right after it returns V.
C1_StringRoundTrip ==
  (last.op = "setCell" /\ last.type = "string" /\ IsStr(last.value)
     /\ ValidName(last.cell_name))
    => (last.thrown = "none" /\ ReadBack = [thrown |-> "none", ret |-> last.value])

\* The round trip does hold for every string but the empty one.
C1_NonEmptyRoundTrip ==
  (last.op = "setCell" /\ last.type = "string" /\ IsStr(last.value)
     /\ ValidName(last.cell_name) /\ last.value # Str(""))
    => (last.thrown = "none" /\ ReadBack = [thrown |-> "none", ret |-> last.value])

\* C2: getCell returns null for every cell without the shared-string type
\* marker, whatever its value and whatever the table holds.
C2_UnmarkedCellReadsNull ==
  \A w \in Sheets : \A name \in {A1, B1, B2, C1, C2} :
    (HasCell(DataOf(w), name) /\ CellAt(DataOf(w), name).t # Str("s"))
      => GetCell(DataOf(w), StringTableOf(w), name) = [thrown |-> "none", ret |-> Null]

\* C3: after a setCell the cell holds the written kind only: a formula and no
\* value or marker, or an offset with marker "s" and no formula, or the number's
\* text with neither marker nor formula.
C3_ValueKindsExclusive ==
  /\ WroteFormula =>
       (WrittenCell.f = last.value /\ WrittenCell.v = Undefined /\ WrittenCell.t = Undefined)
  /\ WroteString =>
       (WrittenCell.t = Str("s") /\ IsNum(WrittenCell.v) /\ WrittenCell.f = Undefined)
  /\ WroteNumber =>
       (WrittenCell.v = Str(NumberToString(last.value[2])) /\ WrittenCell.t = Undefined
          /\ WrittenCell.f = Undefined)

\* C5: a getCell or setCell under a cell name outside the grammar (each name of
\* BadNames: "1A", "A", "", "a1", "A1x") throws the
\* "Invalid cell name" error and leaves every tree, the table and the archive
\* entries as they were.
C5_InvalidNameRejected ==
  [][(last'.op \in {"getCell", "setCell"} /\ last'.cell_name \in BadNames)
       => (last'.thrown = "Error" /\ last'.emitted = <<>>
            /\ trees' = trees /\ tables' = tables /\ sheets' = sheets /\ file' = file)]_vars

C5_Witness ==
  /\ last.op = "setCell" /\ last.cell_name = <<"A", "1", "x">> /\ last.thrown = "Error"
  /\ HasCell(DataOf(last.w), A1)

\* What getCell through the scenario's Sheet returns, and the offset a cell stores.
AliasRead(cell_name) == GetCell(DataOf(1), StringTableOf(1), cell_name).ret
AliasOffset(cell_name) == CellAt(DataOf(1), cell_name).v
TextsOnDisk == EntryData(disk.entries, SharedStringsKey).texts

SheetCount == Len(SheetKeys(disk.entries))
SourceKey(i) == SheetKeys(disk.entries)[i + 1]
Saved == last.op = "saveBuffer" /\ last.thrown = "none"
\* The Workbook was loaded once, and the load resolved.
LoadedOnce == loads = 1 /\ loadResult = "resolved"

\* C6: after the load of a new Workbook has resolved, getSheet(i) succeeds
\* exactly for the indexes i below the number of worksheet entries that the
\* exclusion list does not hold, and throws for every other index.
C6_ExclusionRespected ==
  LoadedOnce =>
    /\ \A i \in Indexes : MapHas(sheets, i) <=> (i < SheetCount /\ i \notin excluded)
    /\ last.op = "getSheet" =>
         (last.thrown = "none" <=> (last.index < SheetCount /\ last.index \notin excluded))

C6_Witness ==
  /\ LoadedOnce /\ excluded = {1} /\ SheetCount = 3
  /\ last.op = "getSheet" /\ last.index = 1 /\ last.thrown = "Error"
  /\ MapHas(sheets, 0) /\ MapHas(sheets, 2)

\* C7: after a load that was rejected no sheet is registered, so that getSheet
\* throws for every index.
C7_FailedLoadNoSheets ==
  loadResult = "rejected" =>
    /\ sheets = <<>>
    /\ last.op = "getSheet" => last.thrown = "Error"

\* C8: after a load that resolved, the buffer of saveBuffer holds every entry of
\* the package other than the entries the loaded sheets were parsed from and the
\* shared strings with the content it has in the package, and holds no entry
\* the package does not have.
C8_PassThrough ==
  (Saved /\ LoadedOnce) =>
    /\ \A e \in 1..Len(disk.entries) :
         LET key == disk.entries[e].key
         IN (key # SharedStringsKey /\ key \notin {SourceKey(i) : i \in MapKeys(sheets)})
              => (HasKey(last.buffer, key)
                    /\ EntryData(last.buffer, key) = disk.entries[e].data)
    /\ \A e \in 1..Len(last.buffer) : HasKey(disk.entries, last.buffer[e].key)

\* C9: after a load that resolved, the buffer of saveBuffer holds, under the
\* entry that sheet index i was parsed from, the serialized tree of sheet i, for
\* every registered index i.
C9_SavedToSourceEntry ==
  (Saved /\ LoadedOnce) =>
    \A j \in 1..Len(sheets) :
      /\ HasKey(last.buffer, SourceKey(sheets[j][1]))
      /\ EntryData(last.buffer, SourceKey(sheets[j][1]))
           = BuiltSheet(BuildSheet(trees[sheets[j][2]]))

\* C10: two Sheet objects that getSheet(i) handed out after the same load refer
\* to one tree and one table: what setCell writes through one of them is what
\* the other one finds under the cell name and resolves in its table, and what
\* the next saveBuffer serializes.
SameSheet(w1, w2) ==
  /\ wrappers[w1].index = wrappers[w2].index
  /\ wrappers[w1].epoch = wrappers[w2].epoch
Current(w) == wrappers[w].epoch = loads
ObservedThrough(w) ==
  /\ HasCell(DataOf(w), last.cell_name)
  /\ CellAt(DataOf(w), last.cell_name).t = Str("s")
  /\ Lookup(StringTableOf(w).si.items, CellAt(DataOf(w), last.cell_name).v) = last.value
C10_WrappersAlias ==
  /\ \A w1 \in Sheets, w2 \in Sheets :
       SameSheet(w1, w2) =>
         (DataOf(w1) = DataOf(w2) /\ StringTableOf(w1) = StringTableOf(w2))
  /\ WroteString => \A w \in Sheets : SameSheet(w, last.w) => ObservedThrough(w)
  /\ Saved =>
       \A w \in Sheets :
         (Current(w) /\ wrappers[w].stringTable # 0) =>
           /\ EntryData(last.buffer, SheetEntryKey(wrappers[w].index + 1)).rows
                = BuildSheet(DataOf(w))
           /\ EntryData(last.buffer, SharedStringsKey).texts
                = BuildStrings(StringTableOf(w))

C10_Witness ==
  /\ Saved /\ Len(wrappers) = 2 /\ SameSheet(1, 2) /\ Current(1)
  /\ HasCell(DataOf(2), A1)
  /\ GetCell(DataOf(1), StringTableOf(1), A1).ret = Str("new")
  /\ GetCell(DataOf(2), StringTableOf(2), A1).ret = Str("new")
  /\ \E t \in 1..Len(EntryData(last.buffer, SharedStringsKey).texts) :
       EntryData(last.buffer, SharedStringsKey).texts[t] = "new"
  /\ \E i \in 1..Len(last.buffer) :
       \E r \in 1..Len(last.buffer[i].data.rows) :
         \E c \in 1..Len(last.buffer[i].data.rows[r].c) :
           last.buffer[i].data.rows[r].c[c].r = A1

\* What the written cell of a tree shows of the value of the latest setCell.
HoldsWritten(data, st) ==
  /\ HasCell(data, last.cell_name)
  /\ LET cell == CellAt(data, last.cell_name)
     IN IF last.type = "formula" THEN cell.f = last.value
        ELSE IF IsNum(last.value) THEN cell.v = Str(NumberToString(last.value[2]))
        ELSE Lookup(st.si.items, cell.v) = last.value

\* C11: a setCell that returns has emitted one notification, with the index of
\* the Sheet that was called and the tree and table as they are after the
\* write, the written value in them; a setCell that throws has emitted none,
\* and neither has a getCell.
C11_ChangeEmitted ==
  /\ WroteCell =>
       /\ last.emitted = << [index |-> wrappers[last.w].index, data |-> DataOf(last.w),
                             stringTable |-> StringTableOf(last.w)] >>
       /\ HoldsWritten(last.emitted[1].data, last.emitted[1].stringTable)
  /\ (last.op = "setCell" /\ last.thrown # "none") => last.emitted = <<>>
  /\ last.op = "getCell" => last.emitted = <<>>

C11_Witness ==
  /\ WroteString /\ wrappers[last.w].index = 1 /\ last.cell_name = B1
  /\ Len(last.emitted) = 1 /\ last.emitted[1].index = 1
  /\ Lookup(last.emitted[1].stringTable.si.items, CellAt(last.emitted[1].data, B1).v) = Str("x")

\* The table and the tree of the Sheet object at position w after the step.
TextsOf(w) == StringTableOf(w).si.items
TextsAfter(w) == tables'[wrappers[w].stringTable].si.items
DataAfter(w) == trees'[wrappers[w].data]
\* The step is a setCell of a string that returned.
WritesString == last'.op = "setCell" /\ last'.thrown = "none" /\ last'.type = "string"
                  /\ IsStr(last'.value)
\* The cell has no resolved value: there is no such cell, or it has no stored value.
Unresolved(w, cell_name) ==
  \/ Scan(DataOf(w).row.items, cell_name, 1).kind = "none"
  \/ HasCell(DataOf(w), cell_name) /\ CellAt(DataOf(w), cell_name).v = Undefined

\* C12: no step makes a table shorter, and a setCell of a string on a cell
\* without a resolved value (a new cell, or one holding a formula only) appends
\* one entry and stores the table's length before the write in the cell.
C12_TableGrowth ==
  [][/\ \A t \in 1..Len(tables) : Len(tables'[t].si.items) >= Len(tables[t].si.items)
     /\ (WritesString /\ Unresolved(last'.w, last'.cell_name)) =>
          /\ Len(TextsAfter(last'.w)) = Len(TextsOf(last'.w)) + 1
          /\ CellAt(DataAfter(last'.w), last'.cell_name).v = Num(Len(TextsOf(last'.w)))]_vars

\* The same where the table holds no empty string before the write.
C12_GrowthWithoutEmptyEntry ==
  [][/\ \A t \in 1..Len(tables) : Len(tables'[t].si.items) >= Len(tables[t].si.items)
     /\ (WritesString /\ Unresolved(last'.w, last'.cell_name)
           /\ IndexOf(TextsOf(last'.w), Str("")) = -1) =>
          /\ Len(TextsAfter(last'.w)) = Len(TextsOf(last'.w)) + 1
          /\ CellAt(DataAfter(last'.w), last'.cell_name).v = Num(Len(TextsOf(last'.w)))]_vars

\* The cell is a string cell whose offset the table resolves to the text x.
ResolvesTo(w, cell_name, x) ==
  /\ HasCell(DataOf(w), cell_name)
  /\ CellAt(DataOf(w), cell_name).t = Str("s")
  /\ Lookup(TextsOf(w), CellAt(DataOf(w), cell_name).v) = x
\* _getSharedString(X, X) on every table of the Workbook and every text X in it
\* returns the first offset of X and leaves the table as it is.
UpsertSameText(tbls) ==
  \A t \in 1..Len(tbls) : \A i \in 1..Len(tbls[t].si.items) :
    LET x == Str(tbls[t].si.items[i])
    IN GetSharedString(tbls[t], x, x) = [index |-> IndexOf(tbls[t].si.items, x), st |-> tbls[t]]

\* C13 as stated: _getSharedString(X, X) returns the first offset of X and
\* changes nothing, and a setCell(A, X) on a string cell that resolves to X
\* changes neither the table nor the offset the cell stores.
C13_RepeatKeepsOffset ==
  [][/\ UpsertSameText(tables')
     /\ (WritesString /\ ResolvesTo(last'.w, last'.cell_name, last'.value)) =>
          /\ tables' = tables
          /\ CellAt(DataAfter(last'.w), last'.cell_name).v
               = CellAt(DataOf(last'.w), last'.cell_name).v]_vars

\* C13 as the code has it: _getSharedString(X, X) returns the first offset of X
\* and changes nothing, and a setCell(A, X) on a string cell that resolves to X
\* leaves the table as it is and stores the first offset of X in the cell, which
\* still resolves to X; the stored offset changes when the cell referred to a
\* later entry of the same text.
C13_RepeatStoresFirstOffset ==
  [][/\ UpsertSameText(tables')
     /\ (WritesString /\ ResolvesTo(last'.w, last'.cell_name, last'.value)) =>
          /\ tables' = tables
          /\ CellAt(DataAfter(last'.w), last'.cell_name).v
               = Num(IndexOf(TextsOf(last'.w), last'.value))
          /\ CellAt(DataAfter(last'.w), last'.cell_name).t = Str("s")
          /\ Lookup(TextsAfter(last'.w), CellAt(DataAfter(last'.w), last'.cell_name).v)
               = last'.value]_vars

C13_Witness ==
  /\ WroteString /\ last.cell_name = A1 /\ last.value = Str("foo")
  /\ TextsOf(last.w) = <<"foo", "bar", "foo">>
  /\ WrittenCell.v = Num(0)

\* The identifier of a row as it is written to the worksheet: r="1".
RowId(row) == BuildValue(row.r)

\* C14: the rows of every tree have distinct identifiers, and a setCell that
\* returned has put its cell in a row whose identifier is the row number of the
\* cell name, the only row of that identifier.
C14_RowsDistinct ==
  /\ \A t \in 1..Len(trees) :
       \A i \in 1..Len(trees[t].row.items), j \in 1..Len(trees[t].row.items) :
         i # j => RowId(trees[t].row.items[i]) # RowId(trees[t].row.items[j])
  /\ WroteCell =>
       LET rows == DataOf(last.w).row.items
           at == Scan(rows, last.cell_name, 1).row
       IN RowId(rows[at]) = Str(NumberToString(ParseInt(FirstDigitRun(last.cell_name))))

\* C15: on a tree and a table of any shape the parser produces, a getCell or a
\* setCell under a valid cell name returns without throwing.
C15_AnyShapeCompletes ==
  (last.op \in {"getCell", "setCell"} /\ ValidName(last.cell_name)) => last.thrown = "none"

\* On a tree whose rows are a sequence of rows with two cells or more, and a
\* table of two strings or more, they do return.
C15_SequencesComplete ==
  (/\ last.op \in {"getCell", "setCell"} /\ ValidName(last.cell_name)
   /\ disk.entries[2].data.rows = PlainSheet /\ Len(disk.entries[3].data.texts) >= 2)
    => last.thrown = "none"

\* getCell through the Sheet object at position w, before and after the step.
Read(w, cell_name) == GetCell(DataOf(w), StringTableOf(w), cell_name)
ReadAfter(w, cell_name) ==
  GetCell(DataAfter(w),
          IF wrappers[w].stringTable = 0 THEN NoTable ELSE tables'[wrappers[w].stringTable],
          cell_name)
AllNames == {A1, A2, B1, B2, C1, C2}
\* The cell of that name on the Sheet at w is another cell than the written one.
OtherCell(w, cell_name) ==
  wrappers[w].data # wrappers[last'.w].data \/ cell_name # last'.cell_name

\* C16: a setCell of a string that returned leaves getCell of every other cell,
\* of this and of every other sheet, as it was, unless that cell read the same
\* as the written cell did before the write; a setCell of a number or of a
\* formula leaves getCell of every other cell as it was.
C16_WriteIsolation ==
  [][(last'.op = "setCell" /\ last'.thrown = "none") =>
       \A w \in Sheets : \A cell_name \in AllNames :
         (/\ OtherCell(w, cell_name)
          /\ WritesString => Read(w, cell_name) # Read(last'.w, last'.cell_name))
           => ReadAfter(w, cell_name) = Read(w, cell_name)]_vars

\* A write through one sheet has changed what a cell of the other sheet reads:
\* both cells B1 read the same text before it.
C16_Witness ==
  /\ WroteString /\ last.cell_name = B1 /\ last.value = Str("x") /\ Len(wrappers) = 2
  /\ wrappers[1].data # wrappers[2].data
  /\ CellAt(DataOf(1), B1).v = Num(0) /\ CellAt(DataOf(2), B1).v = Num(0)
  /\ Read(1, B1).ret = Str("x") /\ Read(2, B1).ret = Str("x")
  /\ Read(1, B2).ret = Str("bar")

\* The cells of a tree.
CellsOf(tree) ==
  UNION {{tree.row.items[i].c.items[j] : j \in 1..Len(tree.row.items[i].c.items)} :
           i \in 1..Len(tree.row.items)}

\* C17: every cell of every tree that carries the marker "s" stores a number k
\* with 0 <= k < the length of the table, and the cell a setCell of a number has
\* written carries no marker.
C17_StringCellsInRange ==
  /\ sharedStrings # 0 =>
       \A t \in 1..Len(trees) : \A cell \in CellsOf(trees[t]) :
         cell.t = Str("s") =>
           (IsNum(cell.v) /\ 0 <= cell.v[2]
              /\ cell.v[2] < Len(tables[sharedStrings].si.items))
  /\ WroteNumber => (WrittenCell.t = Undefined
                       /\ WrittenCell.v = Str(NumberToString(last.value[2])))

\* A number was written over a string cell while another string cell stores an
\* offset that a write appended.
C17_Witness ==
  /\ WroteNumber /\ last.cell_name = B1 /\ WrittenCell.t = Undefined
  /\ \E t \in 1..Len(trees) : \E cell \in CellsOf(trees[t]) :
       cell.t = Str("s") /\ cell.v = Num(3) /\ cell.r = A1

\* C18: a saveBuffer leaves every tree, the table, the Map of sheets and every
\* Sheet object as they are, so that every getCell reads what it read before,
\* and a saveBuffer that follows a saveBuffer gives the same entries with the
\* same contents.
C18_SaveKeepsState ==
  [][last'.op = "saveBuffer" =>
       /\ trees' = trees /\ tables' = tables /\ sheets' = sheets
       /\ sharedStrings' = sharedStrings /\ wrappers' = wrappers
       /\ \A w \in Sheets : \A cell_name \in AllNames :
            ReadAfter(w, cell_name) = Read(w, cell_name)
       /\ (Saved /\ last'.thrown = "none") => last'.buffer = last.buffer]_vars

C18_Witness ==
  /\ Saved /\ file = last.buffer /\ Len(sheets) = 2 /\ Len(wrappers) = 2
  /\ Read(1, A1).ret = Str("new")
  /\ HasKey(last.buffer, SheetEntryKey(1)) /\ HasKey(last.buffer, SheetEntryKey(2))
  /\ EntryData(last.buffer, SheetEntryKey(1)).form = "built"
  /\ EntryData(last.buffer, StylesKey) = Opaque("styles")

\* C19: after every load that resolved, the first or a later one, the Map holds
\* exactly the indexes below the number of worksheet entries that the exclusion
\* list of that load does not hold, and getSheet throws for every other index.
C19_LatestExclusionRespected ==
  loadResult = "resolved" =>
    /\ \A i \in Indexes : MapHas(sheets, i) <=> (i < SheetCount /\ i \notin excluded)
    /\ last.op = "getSheet" =>
         (last.thrown = "none" <=> (last.index < SheetCount /\ last.index \notin excluded))

====
